---- MODULE Spec2Model ----
(***************************************************************************)
(* A model of the Notion RAG assistant: the daily usage counter            *)
(* (usage_store.py), the vector store rebuild (rag.py), the Notion loaders *)
(* (notion_loader.py) and identifier normalization.                        *)
(*                                                                         *)
(* Each subsystem has its own specification (SpecUsage, SpecStore,         *)
(* SpecLoader, SpecIds, SpecDiscovery, SpecWalks, SpecIngest, SpecWeb,     *)
(* SpecSessions, SpecChat).  A specification initialises the variables of  *)
(* the other subsystems to idle values and leaves them unchanged.          *)
(*                                                                         *)
(* Python strings that the code inspects character by character            *)
(* (identifiers, block text) are sequences of one-token strings, so that   *)
(* strip(), replace() and slicing are computed, not assumed.               *)
(***************************************************************************)
EXTENDS Integers, Sequences, FiniteSets, TLC

VARIABLES
    usageFile,   \* prompt_usage.json: user -> (key -> count)
    today,       \* the calendar day _today() returns, as a day number
    sentToday,   \* history: increment_usage calls counted per user today (a
                 \* count in the older format is taken to be of the first day)
    startFresh,  \* history: users that had no usage record at the start
    calls,       \* history: increment_usage calls completed in the run
    index,       \* the persisted index at the persist directory, or NoIndex
    build,       \* the last create_vector_store call and its outcome
    notion,      \* the Notion workspace the API serves (the environment)
    run,         \* the last loader run: documents, outcome, API requests
    idCall,      \* the last identifier handed to a loader and the API ids used
    discovery,   \* the last discover_data_source_from_page call and the search index
    walks,       \* the two block walks applied to one block tree
    web,         \* the web process: get_rag's cache, the last answers given
    sessions,    \* browser sessions inside _try_send_prompt / increment_usage
    chat         \* one session's rerun loop: st.session_state and its position

vars == <<usageFile, today, sentToday, startFresh, calls, index, build, notion, run, idCall,
          discovery, walks, web, sessions, chat>>

usageVars == <<usageFile, today, sentToday, startFresh, calls>>
storeVars == <<index, build>>
loaderVars == <<notion, run>>
idVars == <<idCall>>
appVars == <<discovery, walks, web, sessions, chat>>

(***************************************************************************)
(* Sequence helpers                                                        *)
(***************************************************************************)
RECURSIVE Flatten(_)
Flatten(ss) == IF ss = <<>> THEN <<>> ELSE Head(ss) \o Flatten(Tail(ss))

Range(s) == {s[i] : i \in 1..Len(s)}

(***************************************************************************)
(* usage_store.py                                                          *)
(***************************************************************************)
DAILY_LIMIT == 10

\* Bounds of the usage model.
MaxDay == 2        \* days a run spans
MaxExtra == 2      \* increment_usage calls in a run beyond DAILY_LIMIT

Users == {"alice", "bob"}

\* The key of the older record format, {"prompts_used": N}.
OldKey == "prompts_used"

\* date.today().isoformat() of day number d: one distinct string per day.
DateKey(d) == "day-" \o ToString(d)

\* _today()
_today == DateKey(today)

\* dict.get(key, default) on a record modelled as a function.
DictGet(d, k, default) == IF k \in DOMAIN d THEN d[k] ELSE default

EmptyDict == [k \in {} |-> 0]

\* _load(): the parsed file ({} when the file is missing or unreadable).
_load == usageFile

\* get_usage(email) -> (prompts_used_today, can_send)
get_usage_LimitInclusive(email) ==
    LET data == _load
        user0 == DictGet(data, email, EmptyDict)
        user == IF OldKey \in DOMAIN user0
                THEN [k \in {_today} |-> DictGet(user0, OldKey, 0)]
                ELSE user0
        used_today == DictGet(user, _today, 0)
    IN  [used |-> used_today, can_send |-> used_today <= DAILY_LIMIT]

get_usage(email) ==
    LET data == _load
        user0 == DictGet(data, email, EmptyDict)
        user == IF OldKey \in DOMAIN user0
                THEN [k \in {_today} |-> DictGet(user0, OldKey, 0)]
                ELSE user0
        used_today == DictGet(user, _today, 0)
    IN  [used |-> used_today, can_send |-> used_today < DAILY_LIMIT]

\* The file increment_usage(email) saves.
IncrementedFile(email) ==
    LET data == _load
        user0 == DictGet(data, email, EmptyDict)
        user == IF OldKey \in DOMAIN user0 /\ _today \notin DOMAIN user0
                THEN [k \in {_today} |-> DictGet(user0, OldKey, 0)]
                ELSE user0
        bumped == [k \in DOMAIN user \cup {_today} |->
                      IF k = _today THEN DictGet(user, _today, 0) + 1 ELSE user[k]]
    IN  [e \in DOMAIN data \cup {email} |-> IF e = email THEN bumped ELSE data[e]]

\* The records a usage file may hold for a user when a run starts: none yet
\* written today; the older format; a count left from an earlier day.
InitRecords ==
    {EmptyDict}
    \cup {[k \in {OldKey} |-> n] : n \in {1, DAILY_LIMIT}}
    \cup {[k \in {DateKey(0)} |-> n] : n \in {DAILY_LIMIT}}

InitFiles == UNION {[S -> InitRecords] : S \in SUBSET Users}

\* Idle values of the other subsystems' variables.
NoIndex == "absent"
IdleStore == index = NoIndex /\ build = [called |-> FALSE]
IdleLoader == notion = "idle" /\ run = [loader |-> "none"]
IdleIds == idCall = [op |-> "none"]
IdleDiscovery == discovery = [called |-> FALSE]
IdleWalks == walks = [done |-> "none"]
IdleWeb == web = [started |-> FALSE]
IdleSessions == sessions = [on |-> FALSE]
IdleChat == chat = [pc |-> "off"]
IdleApp == IdleDiscovery /\ IdleWalks /\ IdleWeb /\ IdleSessions /\ IdleChat
IdleUsage == /\ usageFile = [e \in {} |-> EmptyDict]
             /\ today = 1
             /\ sentToday = [u \in Users |-> 0]
             /\ startFresh = {}
             /\ calls = 0

InitUsage ==
    /\ usageFile \in InitFiles
    /\ today = 1
    /\ sentToday = [u \in Users |->
                      DictGet(DictGet(usageFile, u, EmptyDict), OldKey, 0)]
    /\ startFresh = Users \ DOMAIN usageFile
    /\ calls = 0
    /\ IdleStore /\ IdleLoader /\ IdleIds /\ IdleApp

\* increment_usage(email): load, migrate, add one, save.
increment_usage(email) ==
    /\ calls < DAILY_LIMIT + MaxExtra
    /\ usageFile' = IncrementedFile(email)
    /\ sentToday' = [sentToday EXCEPT ![email] = @ + 1]
    /\ calls' = calls + 1
    /\ UNCHANGED <<today, startFresh>>
    /\ UNCHANGED <<storeVars, loaderVars, idVars, appVars>>

\* get_usage(email): reads the file and writes nothing.
GetUsage(email) ==
    /\ get_usage(email).used >= 0
    /\ UNCHANGED vars

\* Midnight: date.today() changes; the file is untouched.
NewDay ==
    /\ today < MaxDay
    /\ today' = today + 1
    /\ sentToday' = [u \in Users |-> 0]
    /\ UNCHANGED <<usageFile, startFresh, calls>>
    /\ UNCHANGED <<storeVars, loaderVars, idVars, appVars>>

NextUsage ==
    \/ \E email \in Users : increment_usage(email)
    \/ \E email \in Users : GetUsage(email)
    \/ NewDay

SpecUsage == InitUsage /\ [][NextUsage]_vars

\* C1: for a user that starts with no usage record, on the starting day,
\* get_usage reports the number n of completed increment_usage calls, with
\* can_send true while n < 10 and false from n = 10 on; and within one day
\* can_send, once false, is never true again.
C1_QuotaReached ==
    /\ [](\A u \in startFresh : today = 1 =>
            /\ get_usage(u).used = sentToday[u]
            /\ get_usage(u).can_send = (sentToday[u] < 10))
    /\ [][\A u \in startFresh :
            (today' = today /\ ~get_usage(u).can_send) => ~get_usage(u)'.can_send]_vars

C1_Witness ==
    \E u \in startFresh :
        today = 1 /\ sentToday[u] = 10 /\ get_usage(u) = [used |-> 10, can_send |-> FALSE]

\* C2 (as claimed): for every stored usage state, get_usage(u) on a day
\* returns exactly the number of increment_usage(u) calls made on that day,
\* so a new day or another user starts at 0 with can_send true.
C2_CountsOnlyTodaysIncrements ==
    \A u \in Users :
        /\ get_usage(u).used = sentToday[u]
        /\ (sentToday[u] = 0 => get_usage(u).can_send)

(***************************************************************************)
(* rag.py: create_vector_store                                             *)
(***************************************************************************)
\* Bound of the store model: documents handed to one create_vector_store call.
MaxDocs == 2

\* Documents: a source and the text as its paragraphs (the pieces the
\* splitter's first separator, "\n\n", yields).  Each paragraph stands for a
\* piece of about chunk_size characters, so pieces are not merged.
DocPool ==
    { [source |-> "page-1", text |-> <<"intro", "pricing">>],
      [source |-> "page-2", text |-> <<"faq">>],
      [source |-> "page-3", text |-> <<" ">>] }

BlankPiece(p) == p \in {"", " "}

DocLists ==
    {ds \in UNION {[1..n -> DocPool] : n \in 0..MaxDocs} :
        \A i, j \in DOMAIN ds : i # j => ds[i] # ds[j]}

\* splitter.split_documents(documents): the chunks of each document in
\* order, each carrying its document's metadata; blank pieces are dropped.
split_documents(documents) ==
    Flatten([i \in DOMAIN documents |->
        LET kept == SelectSeq(documents[i].text, LAMBDA p : ~BlankPiece(p))
        IN  [j \in DOMAIN kept |-> [text |-> kept[j], source |-> documents[i].source]]])

\* A mutant: the persist directory is left in place.
rmtree_Kept(idx) == idx

\* if Path(persist_path).exists(): shutil.rmtree(persist_path)
rmtree(idx) == NoIndex

\* Chroma.from_documents(chunks, persist_directory=...): opens (creating if
\* absent) the collection at the persist directory and adds the chunks.
ChromaFromDocuments(idx, chunks) ==
    (IF idx = NoIndex THEN <<>> ELSE idx) \o chunks

\* create_vector_store(documents).  key: OPENAI_API_KEY is set; embedOk: the
\* embedding service answers; emptyAddRaises: the vector store library
\* rejects an empty batch (it is not part of this repository, so both
\* behaviours are considered).  afterFail: what a failed from_documents
\* leaves at the persist directory.
create_vector_store(documents, key, embedOk, emptyAddRaises, afterFail) ==
    LET chunks == split_documents(documents)
        called == [called |-> TRUE, docs |-> documents, chunks |-> chunks,
                   before |-> index]
        Raise(e) == [outcome |-> "raise", error |-> e] @@ called
    IN  /\ IF documents = <<>>
           THEN /\ build' = Raise("No documents to process.")
                /\ index' = index
           ELSE IF ~key
           THEN /\ build' = Raise("OPENAI_API_KEY required.")
                /\ index' = index
           ELSE IF ~embedOk \/ (chunks = <<>> /\ emptyAddRaises)
           THEN /\ build' = Raise("from_documents failed")
                /\ index' = IF afterFail THEN ChromaFromDocuments(rmtree(index), <<>>)
                            ELSE rmtree(index)
           ELSE /\ build' = [outcome |-> "ok", error |-> "none"] @@ called
                /\ index' = ChromaFromDocuments(rmtree(index), chunks)
        /\ UNCHANGED <<usageVars, loaderVars, idVars, appVars>>

InitStore ==
    /\ index = NoIndex
    /\ build = [called |-> FALSE]
    /\ IdleUsage /\ IdleLoader /\ IdleIds /\ IdleApp

NextStore ==
    \E documents \in DocLists, key, embedOk, emptyAddRaises, afterFail \in BOOLEAN :
        create_vector_store(documents, key, embedOk, emptyAddRaises, afterFail)

SpecStore == InitStore /\ [][NextStore]_vars

\* C3: after create_vector_store completes successfully at a location that
\* already held an index, the index holds exactly the chunks of the documents
\* of this call, in order, and nothing of the earlier index.
C3_RebuildReplacesIndex ==
    (build.called /\ build.outcome = "ok" /\ build.before # NoIndex)
        => index = split_documents(build.docs)

C3_Witness ==
    /\ build.called /\ build.outcome = "ok"
    /\ build.before # NoIndex /\ build.before # <<>>
    /\ build.before # index
    /\ index # <<>>

\* C4 (as claimed): whenever the chunk list obtained from the documents is
\* empty, create_vector_store raises, creates no empty store and leaves an
\* existing index in place.
C4_ZeroChunksIsError ==
    (build.called /\ build.chunks = <<>>)
        => /\ build.outcome = "raise"
           /\ index = build.before

(***************************************************************************)
(* notion_loader.py: text helpers                                          *)
(*                                                                         *)
(* A Python string is a sequence of tokens; " " and "\n" are whitespace.   *)
(***************************************************************************)
IsSpace(t) == t \in {" ", "\n", "\t"}

\* str.strip()
RECURSIVE LStrip(_)
LStrip(s) == IF s # <<>> /\ IsSpace(Head(s)) THEN LStrip(Tail(s)) ELSE s

RECURSIVE RStrip(_)
RStrip(s) == IF s # <<>> /\ IsSpace(s[Len(s)]) THEN RStrip(SubSeq(s, 1, Len(s) - 1)) ELSE s

Strip(s) == RStrip(LStrip(s))

\* sep.join(parts)
RECURSIVE Join(_, _)
Join(sep, parts) ==
    IF parts = <<>> THEN <<>>
    ELSE IF Len(parts) = 1 THEN parts[1]
    ELSE parts[1] \o sep \o Join(sep, Tail(parts))

\* _extract_rich_text(rich_text): the spans' plain_text, concatenated.
_extract_rich_text(rich_text) == Flatten(rich_text)

\* _extract_block_text(block)
_extract_block_text(block) ==
    LET block_type == block.type
        type_data == block.data
    IN  IF "rich_text" \in DOMAIN type_data THEN _extract_rich_text(type_data["rich_text"])
        ELSE IF block_type = "child_page" THEN DictGet(type_data, "title", <<>>)
        ELSE IF block_type = "child_database" THEN DictGet(type_data, "title", <<>>)
        ELSE IF block_type \in {"bookmark", "embed"} THEN DictGet(type_data, "url", <<>>)
        ELSE IF block_type = "code" THEN _extract_rich_text(DictGet(type_data, "rich_text", <<>>))
        ELSE IF block_type = "equation" THEN DictGet(type_data, "expression", <<>>)
        ELSE <<>>

Untitled == <<"Untitled">>

\* _get_page_title_from_props(props).  props is the page's property list in
\* dict order: the first property of type "title" decides.
RECURSIVE _get_page_title_from_props(_)
_get_page_title_from_props(props) ==
    IF props = <<>> THEN Untitled
    ELSE IF Head(props).type = "title"
         THEN IF Head(props).title # <<>> THEN _extract_rich_text(Head(props).title)
              ELSE Untitled
         ELSE _get_page_title_from_props(Tail(props))

\* f"[Page: {title}]"
Placeholder(title) == <<"[Page: ">> \o title \o <<"]">>

(***************************************************************************)
(* The Notion workspace and its API (the environment of the loaders)       *)
(*                                                                         *)
(* Nodes are numbered: 1..NumRoots are the pages (rows of the data         *)
(* source), the following MaxBlocks numbers are blocks.  A block's parent  *)
(* is an earlier node; the API lists children in increasing number.        *)
(***************************************************************************)
\* Bounds of the workspace.
NumRoots == 2      \* pages / rows of the data source
MaxBlocks == 3     \* blocks below them
MaxPageSize == 2   \* items the API returns per result page

Roots == 1..NumRoots
Blocks == (NumRoots + 1)..(NumRoots + MaxBlocks)

None == <<>>

\* The text a block of a kind carries; every block has its own token.
Tok(b) == "b" \o ToString(b)

BlockKinds == {"text", "padded", "blank", "empty", "archived", "child_page",
               "child_database", "bookmark", "equation", "unsupported"}

Dict1(k, v) == [x \in {k} |-> v]

\* The block object the API returns for block b.
BlockObject(b) ==
    LET k == notion.kind[b]
        base == [id |-> b,
                 archived |-> (k = "archived"),
                 has_children |-> (\E c \in Blocks : notion.parent[c] = b)]
        Obj(t, d) == [type |-> t, data |-> d] @@ base
    IN  CASE k = "text"     -> Obj("paragraph", Dict1("rich_text", <<<<Tok(b)>>>>))
          [] k = "archived" -> Obj("paragraph", Dict1("rich_text", <<<<Tok(b)>>>>))
          [] k = "padded"   -> Obj("paragraph", Dict1("rich_text", <<<<" ">>, <<Tok(b), " ">>>>))
          [] k = "blank"    -> Obj("paragraph", Dict1("rich_text", <<<<" ">>>>))
          [] k = "empty"    -> Obj("paragraph", Dict1("rich_text", <<>>))
          [] k = "child_page"     -> Obj("child_page", Dict1("title", <<Tok(b)>>))
          [] k = "child_database" -> Obj("child_database", Dict1("title", <<Tok(b)>>))
          [] k = "bookmark"       -> Obj("bookmark", Dict1("url", <<Tok(b)>>))
          [] k = "equation"       -> Obj("equation", Dict1("expression", <<Tok(b)>>))
          [] k = "unsupported"    -> Obj("unsupported", [x \in {} |-> <<>>])

\* The properties of page r: a title property (after a non-title one), a
\* title property with no spans, or no title property, by the page's number.
PageProps(r) ==
    LET status == [type |-> "status", title |-> <<>>]
    IN  CASE r % 3 = 1 -> <<status, [type |-> "title", title |-> <<<<"Page", ToString(r)>>>>]>>
          [] r % 3 = 2 -> <<status>>
          [] r % 3 = 0 -> <<[type |-> "title", title |-> <<>>]>>

\* The children of node x in API order.
RECURSIVE SortedSeq(_)
SortedSeq(S) == IF S = {} THEN <<>>
                ELSE LET m == CHOOSE v \in S : \A w \in S : v <= w
                     IN  <<m>> \o SortedSeq(S \ {m})

ChildrenIn(parent, x) == SortedSeq({c \in Blocks : parent[c] = x})
ChildrenOf(x) == ChildrenIn(notion.parent, x)

\* Result pages of a listing: `items` cut into pages of notion.pageSize (an
\* empty listing is one empty page).
NumPagesOf(n, pageSize) == IF n = 0 THEN 1 ELSE (n + pageSize - 1) \div pageSize
NumPages(items) == NumPagesOf(Len(items), notion.pageSize)

PageItems(items, p) ==
    SubSeq(items, (p - 1) * notion.pageSize + 1,
           IF p * notion.pageSize < Len(items) THEN p * notion.pageSize ELSE Len(items))

\* The response to a listing request with start_cursor `cursor` over
\* `items`; `what` names the listing in the cursors it hands out.
ListResponse(what, items, cursor) ==
    LET p == IF cursor = None THEN 1 ELSE cursor[2]
        more == p < NumPages(items)
    IN  [results |-> PageItems(items, p),
         has_more |-> more,
         next_cursor |-> IF more THEN <<what, p + 1>> ELSE None]

CursorPage(cursor) == IF cursor = None THEN 1 ELSE cursor[2]

\* notion.blocks.children.list(block_id, start_cursor): fails, or answers.
ListFails(block_id, cursor) == notion.fail = <<"list", block_id, CursorPage(cursor)>>

BlocksChildrenList(block_id, cursor) ==
    LET r == ListResponse(block_id, ChildrenOf(block_id), cursor)
    IN  [r EXCEPT !.results = [i \in DOMAIN r.results |-> BlockObject(r.results[i])]]

\* notion.pages.retrieve(page_id)
RetrieveFails(page_id) == notion.fail = <<"retrieve", page_id, 0>>
PagesRetrieve(page_id) == [id |-> page_id, properties |-> PageProps(page_id)]

\* notion.data_sources.query(data_source_id, start_cursor)
QueryFails(cursor) == notion.fail = <<"query", 0, CursorPage(cursor)>>

DataSourcesQuery(cursor) ==
    LET r == ListResponse(0, SortedSeq(Roots), cursor)
    IN  [r EXCEPT !.results = [i \in DOMAIN r.results |-> PagesRetrieve(r.results[i])]]

(***************************************************************************)
(* notion_loader.py: the two block-tree walks                              *)
(*                                                                         *)
(* A walk returns what the Python function returns (parts / text), whether *)
(* it returned or raised (ok), and the API requests it made, in order.     *)
(***************************************************************************)
ListRequest(block_id, cursor) == <<"list", block_id, cursor>>

\* A mutant: the loop stops after the first result page.
HasMore_Never(resp) == FALSE

\* resp.get("has_more")
HasMore(resp) == resp.has_more

\* A mutant: a block's text is added after the text of its children.
AppendBlock_ChildrenFirst(parts, own, children) == parts \o children \o own

\* parts.append(own text), then parts.extend / parts.append(children's text)
AppendBlock(parts, own, children) == parts \o own \o children

RECURSIVE _fetch_blocks_recursive(_), FBR_Loop(_, _, _), FBR_Each(_, _, _)

\* for block in resp["results"], from the i-th on
FBR_Each(results, i, acc) ==
    IF i > Len(results) \/ ~acc.ok THEN acc
    ELSE LET block == results[i]
         IN  IF block.archived THEN FBR_Each(results, i + 1, acc)
             ELSE LET text == _extract_block_text(block)
                      own == IF Strip(text) # <<>> THEN <<Strip(text)>> ELSE <<>>
                      sub == IF block.has_children
                             THEN _fetch_blocks_recursive(block.id)
                             ELSE [ok |-> TRUE, parts |-> <<>>, reqs |-> <<>>]
                  IN  FBR_Each(results, i + 1,
                               [ok |-> sub.ok,
                                parts |-> AppendBlock(acc.parts, own, sub.parts),
                                reqs |-> acc.reqs \o sub.reqs])

\* while True: one request, its results, then the next cursor
FBR_Loop(block_id, cursor, acc) ==
    LET asked == [acc EXCEPT !.reqs = @ \o <<ListRequest(block_id, cursor)>>]
    IN  IF ListFails(block_id, cursor) THEN [asked EXCEPT !.ok = FALSE]
        ELSE LET resp == BlocksChildrenList(block_id, cursor)
                 done == FBR_Each(resp.results, 1, asked)
             IN  IF ~done.ok \/ ~HasMore(resp) THEN done
                 ELSE FBR_Loop(block_id, resp.next_cursor, done)

\* _fetch_blocks_recursive(notion, block_id)
_fetch_blocks_recursive(block_id) ==
    FBR_Loop(block_id, None, [ok |-> TRUE, parts |-> <<>>, reqs |-> <<>>])

\* "\n".join(p for p in parts if p and p.strip())
JoinNonBlank(parts) ==
    Join(<<"\n">>, SelectSeq(parts, LAMBDA q : q # <<>> /\ Strip(q) # <<>>))

\* A mutant: a failing request makes the walk return no text at all.
FullWalkOnFailure_Empty(parts) == <<>>

\* except Exception: return "\n".join(p for p in parts if p and p.strip())
FullWalkOnFailure(parts) == JoinNonBlank(parts)

RECURSIVE _fetch_block_text_full(_), FBTF_Loop(_, _, _), FBTF_Each(_, _, _)

FBTF_Each(results, i, acc) ==
    IF i > Len(results) THEN acc
    ELSE LET block == results[i]
             bt == block.type
             data == block.data
         IN  IF block.archived \/ bt = "unsupported" THEN FBTF_Each(results, i + 1, acc)
             ELSE LET own == IF "rich_text" \in DOMAIN data
                             THEN (IF _extract_rich_text(data["rich_text"]) # <<>>
                                   THEN <<_extract_rich_text(data["rich_text"])>> ELSE <<>>)
                             ELSE IF bt = "child_page"
                             THEN <<DictGet(data, "title", <<>>)>>
                             ELSE <<>>
                      sub == IF block.has_children
                             THEN _fetch_block_text_full(block.id)
                             ELSE [text |-> <<>>, reqs |-> <<>>]
                      children == IF block.has_children THEN <<sub.text>> ELSE <<>>
                  IN  FBTF_Each(results, i + 1,
                                [parts |-> AppendBlock(acc.parts, own, children),
                                 reqs |-> acc.reqs \o sub.reqs])

FBTF_Loop(block_id, cursor, acc) ==
    LET asked == [acc EXCEPT !.reqs = @ \o <<ListRequest(block_id, cursor)>>]
    IN  IF ListFails(block_id, cursor)
        THEN [text |-> FullWalkOnFailure(asked.parts), reqs |-> asked.reqs]
        ELSE LET resp == BlocksChildrenList(block_id, cursor)
                 done == FBTF_Each(resp.results, 1, asked)
             IN  IF ~HasMore(resp)
                 THEN [text |-> JoinNonBlank(done.parts), reqs |-> done.reqs]
                 ELSE FBTF_Loop(block_id, resp.next_cursor, done)

\* _fetch_block_text_full(notion, block_id)
_fetch_block_text_full(block_id) ==
    FBTF_Loop(block_id, None, [parts |-> <<>>, reqs |-> <<>>])

(***************************************************************************)
(* notion_loader.py: the loaders                                           *)
(*                                                                         *)
(* A load returns the Documents the iterator yielded, whether it ended     *)
(* normally or raised, the page a raised error names, and the requests.    *)
(***************************************************************************)
Document(content, page_id, title) ==
    [page_content |-> content, source |-> page_id, title |-> title]

\* A mutant: the Document is emitted with the fetched content as it is.
RowContent_NoPlaceholder(content, title) == content

\* if not content.strip(): content = f"[Page: {title}]"
RowContent(content, title) ==
    IF Strip(content) = <<>> THEN Placeholder(title) ELSE content

\* content = "\n\n".join(blocks) if blocks else f"[Page: {title}]"
PageContent(blocks, title) ==
    IF blocks # <<>> THEN Join(<<"\n", "\n">>, blocks) ELSE Placeholder(title)

\* A mutant: a page whose fetch fails is skipped and the load goes on.
PageFailure_Skip(acc, page_id, reqs) == [acc EXCEPT !.reqs = reqs]

\* except Exception as e: raise RuntimeError(f"Failed to load page {page_id}: {e}")
PageFailure(acc, page_id, reqs) ==
    [acc EXCEPT !.outcome = "raise", !.error = page_id, !.reqs = reqs]

\* NotionPageLoader.lazy_load: for raw_id in self.page_ids, from the i-th on
RECURSIVE PageLoaderEach(_, _, _)
PageLoaderEach(page_ids, i, acc) ==
    IF i > Len(page_ids) \/ acc.outcome = "raise" THEN acc
    ELSE LET page_id == page_ids[i]
             asked == acc.reqs \o <<<<"retrieve", page_id, None>>>>
         IN  IF RetrieveFails(page_id)
             THEN PageLoaderEach(page_ids, i + 1, PageFailure(acc, page_id, asked))
             ELSE LET page == PagesRetrieve(page_id)
                      title == _get_page_title_from_props(page.properties)
                      walk == _fetch_blocks_recursive(page_id)
                  IN  IF ~walk.ok
                      THEN PageLoaderEach(page_ids, i + 1,
                                          PageFailure(acc, page_id, asked \o walk.reqs))
                      ELSE PageLoaderEach(page_ids, i + 1,
                               [acc EXCEPT
                                  !.docs = @ \o <<Document(PageContent(walk.parts, title),
                                                           page_id, title)>>,
                                  !.reqs = asked \o walk.reqs])

NewRun(loader) ==
    [loader |-> loader, outcome |-> "ok", error |-> 0, docs |-> <<>>, reqs |-> <<>>]

NotionPageLoader_lazy_load(page_ids) == PageLoaderEach(page_ids, 1, NewRun("page"))

RECURSIVE DataSourceLoop(_, _), DataSourceEach(_, _, _)

\* for page in resp["results"], from the i-th on
DataSourceEach(results, i, acc) ==
    IF i > Len(results) THEN acc
    ELSE LET page == results[i]
             page_id == page.id
             title == _get_page_title_from_props(page.properties)
             walk == _fetch_block_text_full(page_id)
         IN  DataSourceEach(results, i + 1,
                 [acc EXCEPT
                    !.docs = @ \o <<Document(RowContent(walk.text, title), page_id, title)>>,
                    !.reqs = @ \o walk.reqs])

\* NotionDataSourceLoader.lazy_load: while True over the query's result pages
DataSourceLoop(cursor, acc) ==
    LET asked == [acc EXCEPT !.reqs = @ \o <<<<"query", 0, cursor>>>>]
    IN  IF QueryFails(cursor) THEN [asked EXCEPT !.outcome = "raise"]
        ELSE LET resp == DataSourcesQuery(cursor)
                 done == DataSourceEach(resp.results, 1, asked)
             IN  IF ~HasMore(resp) THEN done
                 ELSE DataSourceLoop(resp.next_cursor, done)

NotionDataSourceLoader_lazy_load == DataSourceLoop(None, NewRun("data_source"))

\* The kinds of block the loader specification draws.
LoaderKinds == {"padded", "blank", "archived"}

NoFailure == <<"none", 0, 0>>

\* The requests that may fail in a workspace: a page's retrieval, a result
\* page of the rows, a result page of the children of a page or of a block
\* that has children.
FailPoints(parent, pageSize) ==
    {NoFailure}
    \cup {<<"retrieve", r, 0>> : r \in Roots}
    \cup {<<"query", 0, p>> : p \in 1..NumPagesOf(NumRoots, pageSize)}
    \cup UNION {{<<"list", x, p>> : p \in 1..NumPagesOf(Len(ChildrenIn(parent, x)), pageSize)} :
                 x \in Roots \cup {b \in Blocks : \E c \in Blocks : parent[c] = b}}

\* The nodes from x up to its page: x, its parent, ..., the root.
RECURSIVE ChainUp(_, _)
ChainUp(parent, x) == IF x \in Roots THEN {x} ELSE {x} \cup ChainUp(parent, parent[x])

RootIn(parent, x) == CHOOSE r \in Roots : r \in ChainUp(parent, x)

\* The block trees drawn: blocks are numbered in reading order (first the
\* blocks of page 1, depth first, then those of page 2, ...).  The numbers
\* are only names, so every shape of forest is drawn once.
ReadingOrder(parent) ==
    /\ \A b \in Blocks : parent[b] < b
    /\ NumRoots + 1 \in Blocks => parent[NumRoots + 1] \in Roots
    /\ \A b \in Blocks \ {NumRoots + 1} :
          \/ parent[b] \in ChainUp(parent, b - 1)
          \/ parent[b] \in Roots /\ parent[b] > RootIn(parent, b - 1)

Forests == {f \in [Blocks -> Roots \cup Blocks] : ReadingOrder(f)}

\* Either every kind of block and no failing request, or text and blank
\* blocks and one failing request.
InitLoader ==
    /\ \E parent \in Forests, pageSize \in 1..MaxPageSize :
          \/ \E kind \in [Blocks -> LoaderKinds] :
                notion = [parent |-> parent, kind |-> kind,
                          pageSize |-> pageSize, fail |-> NoFailure]
          \/ \E kind \in [Blocks -> {"padded", "blank"}],
                fail \in FailPoints(parent, pageSize) \ {NoFailure} :
                notion = [parent |-> parent, kind |-> kind,
                          pageSize |-> pageSize, fail |-> fail]
    /\ run = NewRun("none")
    /\ IdleUsage /\ IdleStore /\ IdleIds /\ IdleApp

\* NotionPageLoader(page_ids).load(), for the pages in order
RunPageLoader ==
    /\ run' = NotionPageLoader_lazy_load(SortedSeq(Roots))
    /\ UNCHANGED <<notion, usageVars, storeVars, idVars, appVars>>

\* NotionDataSourceLoader(data_source_id).load()
RunDataSourceLoader ==
    /\ run' = NotionDataSourceLoader_lazy_load
    /\ UNCHANGED <<notion, usageVars, storeVars, idVars, appVars>>

NextLoader == RunPageLoader \/ RunDataSourceLoader

SpecLoader == InitLoader /\ [][NextLoader]_vars

(***************************************************************************)
(* What the workspace holds, stated without the walks                      *)
(***************************************************************************)
Up(x) == ChainUp(notion.parent, x)
RootOf(x) == RootIn(notion.parent, x)
BlocksUnder(r) == {b \in Blocks : RootOf(b) = r}

\* b or a block above it is archived: the walks pass over it.
Skipped(b) == \E a \in Up(b) \cap Blocks : notion.kind[a] = "archived"

\* The result page of its parent's listing that block c is delivered on.
PageOf(c) ==
    LET before == Cardinality({d \in Blocks : notion.parent[d] = notion.parent[c] /\ d <= c})
    IN  (before + notion.pageSize - 1) \div notion.pageSize

\* b is delivered on or after the result page whose request fails, or lies
\* below such a block.
CutOff(b) ==
    /\ notion.fail[1] = "list"
    /\ \E c \in Up(b) \cap Blocks :
          notion.parent[c] = notion.fail[2] /\ PageOf(c) >= notion.fail[3]

\* Blocks of the drawn kinds whose own text is not blank.
HasText(b) == notion.kind[b] \in {"text", "padded"}

Fetched(r) == {b \in BlocksUnder(r) : HasText(b) /\ ~Skipped(b) /\ ~CutOff(b)}

ExpectedTitle(r) == IF r % 3 = 1 THEN <<"Page", ToString(r)>> ELSE Untitled

BlockToks == {Tok(b) : b \in Blocks}
ToksIn(content) == Range(content) \cap BlockToks
Pos(content, b) == CHOOSE i \in DOMAIN content : content[i] = Tok(b)
Sources == [i \in DOMAIN run.docs |-> run.docs[i].source]
AllRoots == SortedSeq(Roots)

\* The page a failing request belongs to, if the page loader makes it.
FailingPages ==
    {r \in Roots : \/ notion.fail = <<"retrieve", r, 0>>
                   \/ notion.fail[1] = "list" /\ RootOf(notion.fail[2]) = r}

\* C5: in NotionPageLoader.lazy_load a failing retrieval of a page, or of any
\* result page of its block tree, makes the load raise an error naming that
\* page, and no Document is emitted for it; with no failure every page gets
\* its Document.
C5_PageFailureIsFatal ==
    run.loader = "page" =>
        IF FailingPages = {}
        THEN run.outcome = "ok" /\ Sources = AllRoots
        ELSE \A r \in FailingPages :
                /\ run.outcome = "raise"
                /\ run.error = r
                /\ \A i \in DOMAIN run.docs : run.docs[i].source # r

C5_Witness ==
    /\ run.loader = "page" /\ run.outcome = "raise"
    /\ notion.fail[1] = "list" /\ notion.fail[3] > 1
    /\ run.error = RootOf(notion.fail[2])
    /\ \E b \in Fetched(run.error) : TRUE

\* C6 (as claimed): in NotionDataSourceLoader.lazy_load a failure in one
\* row's block content never aborts the listing, every row gets a Document,
\* and the failing row's Document text is the placeholder.
C6_FailingRowIsPlaceholder ==
    (run.loader = "data_source" /\ notion.fail[1] = "list") =>
        /\ run.outcome = "ok"
        /\ Sources = AllRoots
        /\ \A i \in DOMAIN run.docs :
              run.docs[i].source = RootOf(notion.fail[2]) =>
                 run.docs[i].page_content = Placeholder(ExpectedTitle(run.docs[i].source))

\* C6 (amended): the listing is never aborted and every row gets a Document;
\* the failing row keeps the text of the blocks fetched outside the result
\* pages the failure cut off, and is the placeholder only when none of that
\* text is non-blank.
C6_FailingRowKeepsFetchedText ==
    (run.loader = "data_source" /\ notion.fail[1] = "list") =>
        /\ run.outcome = "ok"
        /\ Sources = AllRoots
        /\ \A i \in DOMAIN run.docs :
              LET r == run.docs[i].source
                  content == run.docs[i].page_content
              IN  IF Fetched(r) = {}
                  THEN content = Placeholder(ExpectedTitle(r))
                  ELSE ToksIn(content) = {Tok(b) : b \in Fetched(r)}

C6_Witness ==
    /\ run.loader = "data_source" /\ notion.fail[1] = "list"
    /\ LET r == RootOf(notion.fail[2])
       IN  /\ r < NumRoots
           /\ Fetched(r) # {}
           /\ \E b \in BlocksUnder(r) : HasText(b) /\ CutOff(b)
           /\ Fetched(r + 1) # {}
           /\ Len(run.docs) = NumRoots

\* The requests of a run that list the children of x (the rows, for x = 0).
RequestsFor(kind, x) == SelectSeq(run.reqs, LAMBDA q : q[1] = kind /\ q[2] = x)

Answer(kind, x, cursor) ==
    IF kind = "query" THEN DataSourcesQuery(cursor) ELSE BlocksChildrenList(x, cursor)

\* The requests rs follow a listing of n result pages to its end: the first
\* has no cursor, each next one carries the next_cursor of the answer before
\* it, and only the last answer has has_more false.
FollowsToEnd(rs, kind, x, n) ==
    /\ Len(rs) = n
    /\ rs[1][3] = None
    /\ \A k \in 1..(n - 1) :
          /\ Answer(kind, x, rs[k][3]).has_more
          /\ rs[k + 1][3] = Answer(kind, x, rs[k][3]).next_cursor
    /\ ~Answer(kind, x, rs[n][3]).has_more

\* The nodes whose children a walk from the pages lists.
Listed(x) == x \in Roots \/ (~Skipped(x) /\ \E c \in Blocks : notion.parent[c] = x)

\* C7: with no failing request, every listing is followed to its end: each
\* result page is requested once, in order, with the cursor of the answer
\* before it, and the items of all result pages are in the output.
C7_PaginationComplete ==
    (run.loader # "none" /\ notion.fail = NoFailure) =>
        /\ \A x \in Roots \cup Blocks :
              IF Listed(x)
              THEN FollowsToEnd(RequestsFor("list", x), "list", x, NumPages(ChildrenOf(x)))
              ELSE RequestsFor("list", x) = <<>>
        /\ run.loader = "data_source" =>
              FollowsToEnd(RequestsFor("query", 0), "query", 0, NumPages(AllRoots))
        /\ run.outcome = "ok"
        /\ Sources = AllRoots
        /\ \A i \in DOMAIN run.docs :
              ToksIn(run.docs[i].page_content)
                 = {Tok(b) : b \in {c \in BlocksUnder(run.docs[i].source) :
                                       HasText(c) /\ ~Skipped(c)}}

C7_Witness ==
    /\ run.loader = "data_source" /\ notion.fail = NoFailure
    /\ Len(RequestsFor("query", 0)) = NumRoots
    /\ \E x \in Blocks : Len(RequestsFor("list", x)) = 2
    /\ \E i \in DOMAIN run.docs : Cardinality(ToksIn(run.docs[i].page_content)) = MaxBlocks

\* C8: in every Document the text of a block comes before the text of its
\* descendants, and the text of a block and of its whole subtree comes
\* before the text of the block's later siblings; no text comes twice.
C8_DepthFirstReadingOrder ==
    \A i \in DOMAIN run.docs :
        LET content == run.docs[i].page_content
            Present(b) == Tok(b) \in Range(content)
        IN  /\ \A b \in Blocks :
                  Cardinality({j \in DOMAIN content : content[j] = Tok(b)}) <= 1
            /\ \A x, y \in Blocks :
                  (Present(x) /\ Present(y) /\ x \in Up(y) /\ x # y)
                      => Pos(content, x) < Pos(content, y)
            /\ \A d, s \in Blocks :
                  (/\ Present(d) /\ Present(s)
                   /\ \E x \in Up(d) \cap Blocks :
                         notion.parent[x] = notion.parent[s] /\ x < s)
                      => Pos(content, d) < Pos(content, s)

C8_Witness ==
    /\ run.loader = "page"
    /\ \E i \in DOMAIN run.docs, x, y, s \in Blocks :
          LET content == run.docs[i].page_content
          IN  /\ notion.parent[y] = x
              /\ notion.parent[s] = notion.parent[x] /\ x < s
              /\ PageOf(x) # PageOf(s)
              /\ {Tok(x), Tok(y), Tok(s)} \subseteq Range(content)

\* C9: every Document a loader emits has non-blank text, and when nothing
\* non-blank was fetched for its page the text is "[Page: <title>]" with the
\* page's title.
C9_NoEmptyDocument ==
    \A i \in DOMAIN run.docs :
        LET r == run.docs[i].source
            content == run.docs[i].page_content
        IN  /\ Strip(content) # <<>>
            /\ run.docs[i].title = ExpectedTitle(r)
            /\ Fetched(r) = {} => content = Placeholder(ExpectedTitle(r))

C9_Witness ==
    \E i \in DOMAIN run.docs :
        LET r == run.docs[i].source
        IN  /\ run.loader = "data_source"
            /\ \E b \in BlocksUnder(r) : notion.kind[b] = "blank"
            /\ \A b \in BlocksUnder(r) : notion.kind[b] = "blank"
            /\ run.docs[i].page_content = Placeholder(ExpectedTitle(r))

(***************************************************************************)
(* Identifier normalization (notion_loader.py, rag.py)                     *)
(*                                                                         *)
(* An identifier is a sequence of characters.                              *)
(***************************************************************************)
\* Bound of the identifier model: the identifiers drawn.
NumIds == 3

HexDigits == <<"0", "1", "2", "3", "4", "5", "6", "7",
               "8", "9", "a", "b", "c", "d", "e", "f">>

\* The i-th character of the k-th identifier: neighbours differ.
IdChar(k, i) == HexDigits[((7 * i + 3 * k) % 16) + 1]

\* The five groups of the k-th identifier: 8, 4, 4, 4 and 12 characters.
GroupLens == <<8, 4, 4, 4, 12>>
GroupStarts == <<0, 8, 12, 16, 20>>
IdGroups(k) == [g \in 1..5 |-> [j \in 1..GroupLens[g] |-> IdChar(k, GroupStarts[g] + j)]]

\* The two spellings of the k-th identifier.
Compact(k) == Flatten(IdGroups(k))
Hyphenated(k) == Join(<<"-">>, IdGroups(k))

Padded(id, lead, trail) ==
    (IF lead THEN <<" ">> ELSE <<>>) \o id \o (IF trail THEN <<" ", "\n">> ELSE <<>>)

\* The ways the k-th identifier is written: either spelling, with or
\* without whitespace around it.
ValidForms(k) ==
    {Padded(id, lead, trail) : id \in {Compact(k), Hyphenated(k)}, lead, trail \in BOOLEAN}

\* Inputs that are no identifier: one character short.
ShortForm(k) == SubSeq(Compact(k), 1, Len(Compact(k)) - 1)

\* A mutant: the hyphens are removed but the whitespace is kept.
StripDashes_NoStrip(p) == SelectSeq(p, LAMBDA c : c # "-")

\* p.strip().replace("-", "")
StripDashes(p) == SelectSeq(Strip(p), LAMBDA c : c # "-")

\* f"{raw_id[:8]}-{raw_id[8:12]}-{raw_id[12:16]}-{raw_id[16:20]}-{raw_id[20:]}"
Hyphenate(raw_id) ==
    SubSeq(raw_id, 1, 8) \o <<"-">> \o SubSeq(raw_id, 9, 12) \o <<"-">> \o
    SubSeq(raw_id, 13, 16) \o <<"-">> \o SubSeq(raw_id, 17, 20) \o <<"-">> \o
    SubSeq(raw_id, 21, Len(raw_id))

\* ... if len(raw_id) == 32 else raw_id
HyphenateIfFull(raw_id) == IF Len(raw_id) = 32 THEN Hyphenate(raw_id) ELSE raw_id

\* NotionPageLoader(page_ids): the page_id of each pages.retrieve and
\* blocks.children.list request.
PageLoaderIds(page_ids) ==
    LET kept == SelectSeq(page_ids, LAMBDA p : Strip(p) # <<>>)
        stored == [i \in DOMAIN kept |-> StripDashes(kept[i])]
    IN  [i \in DOMAIN stored |-> HyphenateIfFull(stored[i])]

\* NotionDataSourceLoader(data_source_id): the data_source_id of each
\* data_sources.query request.
DataSourceLoaderId(data_source_id) == HyphenateIfFull(StripDashes(data_source_id))

\* load_notion_documents(page_ids=...): the identifiers handed to the API,
\* for the pages from the i-th on.  found: discover_data_source_from_page
\* returned the data source `discovered`.
RECURSIVE LoadPagesIds(_, _, _, _, _)
LoadPagesIds(page_ids, i, found, discovered, seen_ds) ==
    IF i > Len(page_ids) THEN <<>>
    ELSE LET raw_id == StripDashes(page_ids[i])
         IN  IF Len(raw_id) # 32
             THEN LoadPagesIds(page_ids, i + 1, found, discovered, seen_ds)
             ELSE IF found /\ discovered \notin seen_ds
             THEN <<DataSourceLoaderId(discovered)>>
                  \o LoadPagesIds(page_ids, i + 1, found, discovered, seen_ds \cup {discovered})
             ELSE IF ~found
             THEN PageLoaderIds(<<raw_id>>)
                  \o LoadPagesIds(page_ids, i + 1, found, discovered, seen_ds)
             ELSE LoadPagesIds(page_ids, i + 1, found, discovered, seen_ds)

\* load_notion_documents(database_id=...): the database_id NotionDBLoader is
\* constructed with.
LoadDatabaseId(database_id) == StripDashes(database_id)

Inputs == UNION {ValidForms(k) \cup {ShortForm(k)} : k \in 1..NumIds}

IdCall(op, input, api) ==
    [op |-> op, input |-> input, discovered |-> <<>>, api |-> api]

UsePageLoader(input) ==
    /\ idCall' = IdCall("NotionPageLoader", input, PageLoaderIds(<<input>>))
    /\ UNCHANGED <<usageVars, storeVars, loaderVars, appVars>>

UseDataSourceLoader(input) ==
    /\ idCall' = IdCall("NotionDataSourceLoader", input, <<DataSourceLoaderId(input)>>)
    /\ UNCHANGED <<usageVars, storeVars, loaderVars, appVars>>

\* load_notion_documents(data_source_id=input)
LoadDataSource(input) ==
    /\ idCall' = IdCall("load:data_source_id", input, <<DataSourceLoaderId(input)>>)
    /\ UNCHANGED <<usageVars, storeVars, loaderVars, appVars>>

\* load_notion_documents(page_ids=[input]), no data source discovered
LoadPages(input) ==
    /\ idCall' = IdCall("load:page_ids", input,
                        LoadPagesIds(<<input>>, 1, FALSE, <<>>, {}))
    /\ UNCHANGED <<usageVars, storeVars, loaderVars, appVars>>

\* load_notion_documents(page_ids=[input]), the search returning `ds`
LoadPagesDiscovered(input, ds) ==
    /\ idCall' = [IdCall("load:page_ids", input,
                                LoadPagesIds(<<input>>, 1, TRUE, ds, {}))
                    EXCEPT !.discovered = ds]
    /\ UNCHANGED <<usageVars, storeVars, loaderVars, appVars>>

\* load_notion_documents(database_id=input)
LoadDatabase(input) ==
    /\ idCall' = IdCall("load:database_id", input, <<LoadDatabaseId(input)>>)
    /\ UNCHANGED <<usageVars, storeVars, loaderVars, appVars>>

InitIds ==
    /\ idCall = IdCall("none", <<>>, <<>>)
    /\ IdleUsage /\ IdleStore /\ IdleLoader /\ IdleApp

NextIds ==
    \/ \E input \in Inputs : UsePageLoader(input)
    \/ \E input \in Inputs : UseDataSourceLoader(input)
    \/ \E input \in Inputs : LoadDataSource(input)
    \/ \E input \in Inputs : LoadPages(input)
    \/ \E input \in Inputs, k \in 1..NumIds :
          \E ds \in ValidForms(k) : LoadPagesDiscovered(input, ds)
    \/ \E input \in Inputs : LoadDatabase(input)

SpecIds == InitIds /\ [][NextIds]_vars

\* The identifiers the input of the last call spells (one, or none).
Spelled == {k \in 1..NumIds : idCall.input \in ValidForms(k)}

\* The identifier whose value the last call hands to the API when its input
\* spells k: the data source the search returned, if one was discovered.
Subject(k) ==
    IF idCall.discovered = <<>> THEN k
    ELSE CHOOSE d \in 1..NumIds : idCall.discovered \in ValidForms(d)

\* C10 (as claimed): in NotionPageLoader, NotionDataSourceLoader and
\* load_notion_documents, every spelling of an identifier (compact or
\* hyphenated, with or without whitespace around it) is turned into the
\* hyphenated 8-4-4-4-12 value before it is handed to the API.
C10_AlwaysHyphenated ==
    \A k \in Spelled :
        /\ idCall.api # <<>>
        /\ \A i \in DOMAIN idCall.api : idCall.api[i] = Hyphenated(Subject(k))

\* C10 (amended): as claimed for NotionPageLoader, NotionDataSourceLoader and
\* the page_ids and data_source_id arguments of load_notion_documents; a
\* database_id reaches NotionDBLoader in the compact 32-character form, the
\* same for every spelling.
C10_SameCanonicalValue ==
    \A k \in Spelled :
        /\ idCall.api # <<>>
        /\ \A i \in DOMAIN idCall.api :
              idCall.api[i] = IF idCall.op = "load:database_id"
                              THEN Compact(k) ELSE Hyphenated(Subject(k))

C10_Witness ==
    \E k \in 1..NumIds :
        /\ idCall.op = "load:page_ids"
        /\ idCall.discovered = <<>>
        /\ idCall.input = Padded(Compact(k), TRUE, TRUE)
        /\ idCall.api = <<Hyphenated(k)>>
        /\ Hyphenated(k) # Compact(k)

(***************************************************************************)
(* notion_loader.py: discover_data_source_from_page                        *)
(*                                                                         *)
(* The environment is the workspace's search index of data-source objects  *)
(* in search order.  Each entry has an id (or none), the page that hosts   *)
(* the data source, and whether a query of it succeeds.                    *)
(***************************************************************************)
\* Bound of the discovery model: data sources in the search index.
MaxSources == 2

\* notion.search(..., page_size=5): one result page, never followed.
SEARCH_PAGE_SIZE == 5

HostPages == {"page-a", "page-b"}

\* A missing id, and the None that discover returns (both falsy).
NoId == ""

SourceEntries(i) ==
    [id : {NoId, "ds-" \o ToString(i)}, host : HostPages, queryable : BOOLEAN]

SearchIndexes ==
    UNION {{idx \in [1..n -> UNION {SourceEntries(i) : i \in 1..n}] :
                \A i \in 1..n : idx[i] \in SourceEntries(i)} : n \in 0..MaxSources}

\* notion.search(filter=data_source, page_size=5).get("results", [])
SearchResults ==
    SubSeq(discovery.search, 1,
           IF Len(discovery.search) < SEARCH_PAGE_SIZE THEN Len(discovery.search)
           ELSE SEARCH_PAGE_SIZE)

\* notion.data_sources.query(data_source_id=ds_id, page_size=1) answers.
TrialQueryOk(ds_id) ==
    \E i \in DOMAIN discovery.search :
        discovery.search[i].id = ds_id /\ discovery.search[i].queryable

\* for ds in results: the first entry with an id whose trial query answers.
RECURSIVE DiscoverEach(_, _)
DiscoverEach(results, i) ==
    IF i > Len(results) THEN NoId
    ELSE LET ds_id == results[i].id
         IN  IF ds_id # NoId /\ TrialQueryOk(ds_id) THEN ds_id
             ELSE DiscoverEach(results, i + 1)

\* discover_data_source_from_page(notion, page_id): every exception is
\* caught; page_id is not used.
discover_data_source_from_page(page_id) ==
    IF discovery.searchFails THEN [raised |-> FALSE, value |-> NoId]
    ELSE [raised |-> FALSE, value |-> DiscoverEach(SearchResults, 1)]

InitDiscovery ==
    /\ \E search \in SearchIndexes, searchFails \in BOOLEAN :
         discovery = [called |-> FALSE, search |-> search, searchFails |-> searchFails,
                      page_id |-> NoId, result |-> [raised |-> FALSE, value |-> NoId]]
    /\ IdleWalks /\ IdleWeb /\ IdleSessions /\ IdleChat
    /\ IdleUsage /\ IdleStore /\ IdleLoader /\ IdleIds

Discover(page_id) ==
    /\ discovery' = [discovery EXCEPT !.called = TRUE, !.page_id = page_id,
                                      !.result = discover_data_source_from_page(page_id)]
    /\ UNCHANGED <<usageVars, storeVars, loaderVars, idVars, walks, web, sessions, chat>>

NextDiscovery == \E page_id \in HostPages : Discover(page_id)

SpecDiscovery == InitDiscovery /\ [][NextDiscovery]_vars

\* The data sources a page hosts that answer the trial query, as positions
\* of the search index.
HostedValidated(page_id) ==
    {i \in DOMAIN discovery.search :
        /\ discovery.search[i].id # NoId
        /\ discovery.search[i].host = page_id
        /\ discovery.search[i].queryable}

\* C11: discover_data_source_from_page(page_id) never raises; it returns the
\* id of the first data source in search order that is hosted by page_id and
\* answers the trial query, and none when there is no such data source.
C11_DiscoversHostedSource ==
    discovery.called =>
        LET hv == HostedValidated(discovery.page_id)
        IN  /\ ~discovery.result.raised
            /\ IF hv = {} THEN discovery.result.value = NoId
               ELSE discovery.result.value =
                        discovery.search[CHOOSE i \in hv : \A j \in hv : i <= j].id

(***************************************************************************)
(* notion_loader.py: the page walk and the row walk on the same block tree *)
(***************************************************************************)
\* The kinds of block the walk specification draws: rich text, rich text
\* with surrounding whitespace, a block whose text is not rich text, and a
\* block of a type the API does not support.
WalkKinds == {"text", "padded", "bookmark", "unsupported"}

\* A workspace in which no request fails.
InitWalks ==
    /\ \E parent \in Forests, kind \in [Blocks -> WalkKinds] :
          notion = [parent |-> parent, kind |-> kind,
                    pageSize |-> MaxPageSize, fail |-> NoFailure]
    /\ run = NewRun("none")
    /\ walks = [done |-> "none"]
    /\ IdleUsage /\ IdleStore /\ IdleIds
    /\ IdleDiscovery /\ IdleWeb /\ IdleSessions /\ IdleChat

\* Both walks from the same page / row r.
WalkBoth(r) ==
    /\ walks' = [done |-> "both", root |-> r,
                 page |-> _fetch_blocks_recursive(r),
                 row |-> _fetch_block_text_full(r)]
    /\ UNCHANGED <<usageVars, storeVars, loaderVars, idVars, discovery, web, sessions, chat>>

NextWalks == \E r \in Roots : WalkBoth(r)

SpecWalks == InitWalks /\ [][NextWalks]_vars

\* C12: with no failing request, the row walk extracts the same per-block
\* texts, from the same blocks and in the same order, as the page walk: the
\* row's text is the page walk's parts, one per line.
C12_RowWalkEqualsPageWalk ==
    walks.done = "both" =>
        /\ walks.page.ok
        /\ walks.row.text = Join(<<"\n">>, walks.page.parts)

(***************************************************************************)
(* rag.py: ingest                                                          *)
(***************************************************************************)
\* ingest(...): load_notion_documents, then create_vector_store.  fetchOk:
\* the loaders return (a failing page load raises out of ingest).
ingest(fetchOk, documents, key, embedOk, emptyAddRaises, afterFail) ==
    IF ~fetchOk
    THEN /\ build' = [called |-> FALSE, fetch |-> "raise", before |-> index]
         /\ index' = index
         /\ UNCHANGED <<usageVars, loaderVars, idVars, appVars>>
    ELSE create_vector_store(documents, key, embedOk, emptyAddRaises, afterFail)

NextIngest ==
    \E fetchOk \in BOOLEAN, documents \in DocLists,
       key, embedOk, emptyAddRaises, afterFail \in BOOLEAN :
        ingest(fetchOk, documents, key, embedOk, emptyAddRaises, afterFail)

SpecIngest == InitStore /\ [][NextIngest]_vars

(***************************************************************************)
(* app.py: get_rag / get_answer, and main.py: cmd_query                    *)
(*                                                                         *)
(* web.cache is what st.cache_resource holds for get_rag in this process:  *)
(* nothing yet, or the value the first completed call returned (None or    *)
(* the chain).  A call that raises stores nothing.                         *)
(***************************************************************************)
NoKnowledgeBase == "No knowledge base found. Run ingest first to index your Notion notes."
NoVectorStore == "Error: No vector store. Run 'ingest' first."
KeyRequired == "Error: OPENAI_API_KEY required"
Sorry(e) == "Sorry, something went wrong: " \o e
QueryFailed(e) == "Query failed: " \o e

\* The errors the environment raises.
LoadError == "OPENAI_API_KEY required."
InvokeError == "rate limit exceeded"

\* Path(DEFAULT_PERSIST_DIR).exists()
PersistDirExists == index # NoIndex

\* get_rag() under @st.cache_resource.  loadOk: load_vector_store and
\* build_rag_chain return (they raise without the API key).
get_rag(loadOk) ==
    IF web.cache # "unset"
    THEN [raised |-> FALSE, value |-> web.cache, cache |-> web.cache]
    ELSE IF ~PersistDirExists
    THEN [raised |-> FALSE, value |-> "None", cache |-> "None"]
    ELSE IF ~loadOk
    THEN [raised |-> TRUE, value |-> LoadError, cache |-> "unset"]
    ELSE [raised |-> FALSE, value |-> "chain", cache |-> "chain"]

\* A mutant: the except clause of get_answer re-raises.
InvokeFailure_Raise(e) == [outcome |-> "raised", text |-> e]

\* except Exception as e: return f"Sorry, something went wrong: {str(e)}"
InvokeFailure(e) == [outcome |-> "returned", text |-> Sorry(e)]

\* get_answer(question): the outcome, and the cache it leaves.
get_answer(loadOk, invokeOk) ==
    LET chain == get_rag(loadOk)
    IN  IF chain.raised
        THEN [outcome |-> "raised", text |-> chain.value, cache |-> chain.cache]
        ELSE IF chain.value = "None"
        THEN [outcome |-> "returned", text |-> NoKnowledgeBase, cache |-> chain.cache]
        ELSE IF invokeOk
        THEN [outcome |-> "returned", text |-> "answer", cache |-> chain.cache]
        ELSE InvokeFailure(InvokeError) @@ [cache |-> chain.cache]

\* cmd_query(args): what it prints, its exit status, whether query ran.
cmd_query(key, queryOk) ==
    IF ~key THEN [printed |-> KeyRequired, exit |-> 1, queried |-> FALSE]
    ELSE IF ~PersistDirExists
    THEN [printed |-> NoVectorStore, exit |-> 1, queried |-> FALSE]
    ELSE IF queryOk THEN [printed |-> "answer", exit |-> 0, queried |-> TRUE]
    ELSE [printed |-> QueryFailed(InvokeError), exit |-> 1, queried |-> TRUE]

NoCall == [op |-> "none"]

InitWeb ==
    /\ index \in {NoIndex, <<[text |-> "intro", source |-> "page-1"]>>}
    /\ build = [called |-> FALSE]
    /\ web = [started |-> TRUE, cache |-> "unset", last |-> NoCall]
    /\ IdleUsage /\ IdleLoader /\ IdleIds
    /\ IdleDiscovery /\ IdleWalks /\ IdleSessions /\ IdleChat

\* A question asked in the web interface.
Ask(loadOk, invokeOk) ==
    LET a == get_answer(loadOk, invokeOk)
    IN  /\ web' = [web EXCEPT !.cache = a.cache,
                              !.last = [op |-> "ask", existed |-> PersistDirExists,
                                        loadOk |-> loadOk, invokeOk |-> invokeOk,
                                        cached |-> web.cache,
                                        outcome |-> a.outcome, text |-> a.text]]
        /\ UNCHANGED <<usageVars, storeVars, loaderVars, idVars,
                       discovery, walks, sessions, chat>>

\* python main.py query "...": a process of its own.
CliQuery(key, queryOk) ==
    LET c == cmd_query(key, queryOk)
    IN  /\ web' = [web EXCEPT !.last = [op |-> "cli", existed |-> PersistDirExists,
                                        key |-> key, printed |-> c.printed,
                                        exit |-> c.exit, queried |-> c.queried]]
        /\ UNCHANGED <<usageVars, storeVars, loaderVars, idVars,
                       discovery, walks, sessions, chat>>

\* Streamlit restarts the web process: the cache is empty again.
Restart ==
    /\ web.cache # "unset"
    /\ web' = [web EXCEPT !.cache = "unset", !.last = NoCall]
    /\ UNCHANGED <<usageVars, storeVars, loaderVars, idVars,
                   discovery, walks, sessions, chat>>

NextWeb ==
    \/ \E loadOk, invokeOk \in BOOLEAN : Ask(loadOk, invokeOk)
    \/ \E key, queryOk \in BOOLEAN : CliQuery(key, queryOk)
    \/ \E fetchOk \in BOOLEAN, documents \in DocLists,
          key, embedOk, emptyAddRaises, afterFail \in BOOLEAN :
           ingest(fetchOk, documents, key, embedOk, emptyAddRaises, afterFail)
    \/ Restart

SpecWeb == InitWeb /\ [][NextWeb]_vars

\* The last question reached the chain: get_rag returned one.
ChainInvoked ==
    /\ web.last.op = "ask"
    /\ web.cache = "chain"

\* C13 as stated: get_answer never raises, and a failure of loading or of
\* the chain comes back as the message carrying the error text.
C13_NeverPropagates ==
    web.last.op = "ask" =>
        /\ web.last.outcome = "returned"
        /\ (ChainInvoked /\ ~web.last.invokeOk) => web.last.text = Sorry(InvokeError)

\* C13 (amended): an error of retrieval or generation (chain.invoke) comes
\* back from get_answer as "Sorry, something went wrong: <error text>"; an
\* error raised while the pipeline is loaded (get_rag) is raised by
\* get_answer to its caller, and that is the only case in which it raises.
C13_InvokeErrorsReturned ==
    web.last.op = "ask" =>
        /\ (ChainInvoked /\ ~web.last.invokeOk) =>
              /\ web.last.outcome = "returned"
              /\ web.last.text = Sorry(InvokeError)
        /\ web.last.outcome = "raised" <=>
              /\ web.last.cached = "unset"
              /\ web.last.existed
              /\ ~web.last.loadOk
        /\ web.last.outcome = "raised" => web.last.text = LoadError

C13_Witness ==
    /\ ChainInvoked
    /\ ~web.last.invokeOk
    /\ web.last.text = Sorry(InvokeError)

\* C14: the web interface answers with the "run ingest first" message
\* exactly when the persist location is absent when the question is asked;
\* the query command, with its API key set and no persist location, prints
\* its "run ingest first" message, exits non-zero and does not call query,
\* and prints it in no other case.
C14_IngestFirstIffNoIndex ==
    /\ web.last.op = "ask" =>
          (web.last.outcome = "returned" /\ web.last.text = NoKnowledgeBase)
              <=> ~web.last.existed
    /\ web.last.op = "cli" =>
          /\ (web.last.key /\ ~web.last.existed) =>
                /\ web.last.printed = NoVectorStore
                /\ web.last.exit # 0
                /\ ~web.last.queried
          /\ web.last.printed = NoVectorStore => ~web.last.existed

\* The last ingest run raised: while fetching, or in create_vector_store.
IngestRaised ==
    \/ "fetch" \in DOMAIN build
    \/ build.called /\ build.outcome = "raise"

\* C17: when ingest raises, at whatever stage, at a location that held an
\* index, the persisted index is the one that was there before the run.
C17_FailedIngestKeepsIndex ==
    (IngestRaised /\ build.before # NoIndex) => build.before = index

(***************************************************************************)
(* app.py: _try_send_prompt in several browser sessions                    *)
(*                                                                         *)
(* Streamlit runs each session's script in a thread of its own, so the     *)
(* calls of one session interleave with those of another at every file     *)
(* access and at the blocking get_answer call.  Nothing in usage_store.py  *)
(* locks the usage file.                                                   *)
(***************************************************************************)
\* Bounds of the session model.
NumSessions == 2   \* browser sessions
MaxPrompts == 1    \* prompts a session submits

SessionIds == 1..NumSessions

\* Today's stored count of a user.
StoredToday(file, u) == DictGet(DictGet(file, u, EmptyDict), _today, 0)

\* The usage file when the sessions start: each user has no record yet, or
\* has one prompt left today.
SessionFiles ==
    UNION {[S -> {[k \in {DateKey(1)} |-> DAILY_LIMIT - 1]}] : S \in SUBSET Users}

\* An empty file on disk: json.load fails and _load returns {}.
EmptyFile == [e \in {} |-> EmptyDict]

InitSessions ==
    /\ usageFile \in SessionFiles
    /\ today = 1
    /\ sentToday = [u \in Users |-> 0]
    /\ startFresh = {}
    /\ calls = 0
    /\ \E email \in [SessionIds -> Users] :
          sessions = [on |-> TRUE,
                      email |-> email,
                      pc |-> [s \in SessionIds |-> "idle"],
                      left |-> [s \in SessionIds |-> MaxPrompts],
                      data |-> [s \in SessionIds |-> EmptyFile],
                      start |-> [u \in Users |-> StoredToday(usageFile, u)],
                      answered |-> [u \in Users |-> 0],
                      incremented |-> [u \in Users |-> 0]]
    /\ IdleStore /\ IdleLoader /\ IdleIds
    /\ IdleDiscovery /\ IdleWalks /\ IdleWeb /\ IdleChat

SessionFrame ==
    UNCHANGED <<today, sentToday, startFresh, calls, storeVars, loaderVars, idVars,
                discovery, walks, web, chat>>

\* The rerun loop calls _try_send_prompt(email, pending).
SubmitPrompt(s) ==
    /\ sessions.pc[s] = "idle"
    /\ sessions.left[s] > 0
    /\ sessions' = [sessions EXCEPT !.pc[s] = "get_usage", !.left[s] = @ - 1]
    /\ UNCHANGED usageFile
    /\ SessionFrame

\* used, can_send = get_usage(email); if not can_send: return
CheckUsage(s) ==
    /\ sessions.pc[s] = "get_usage"
    /\ sessions' = [sessions EXCEPT !.pc[s] =
                       IF get_usage(sessions.email[s]).can_send THEN "get_answer"
                       ELSE "idle"]
    /\ UNCHANGED usageFile
    /\ SessionFrame

\* answer = get_answer(prompt): the blocking call returns.
GetAnswer(s) ==
    /\ sessions.pc[s] = "get_answer"
    /\ sessions' = [sessions EXCEPT !.pc[s] = "_load",
                                    !.answered[sessions.email[s]] = @ + 1]
    /\ UNCHANGED usageFile
    /\ SessionFrame

\* increment_usage: data = _load(), then the count is added in memory.
IncLoad(s) ==
    /\ sessions.pc[s] = "_load"
    /\ sessions' = [sessions EXCEPT !.pc[s] = "open",
                                    !.data[s] = IncrementedFile(sessions.email[s])]
    /\ UNCHANGED usageFile
    /\ SessionFrame

\* _save: open(USAGE_FILE, "w") empties the file.
SaveOpen(s) ==
    /\ sessions.pc[s] = "open"
    /\ usageFile' = EmptyFile
    /\ sessions' = [sessions EXCEPT !.pc[s] = "dump"]
    /\ SessionFrame

\* _save: json.dump(data, f) and close; increment_usage returns.
SaveDump(s) ==
    /\ sessions.pc[s] = "dump"
    /\ usageFile' = sessions.data[s]
    /\ sessions' = [sessions EXCEPT !.pc[s] = "idle",
                                    !.incremented[sessions.email[s]] = @ + 1]
    /\ SessionFrame

NextSessions ==
    \E s \in SessionIds :
        \/ SubmitPrompt(s)
        \/ CheckUsage(s)
        \/ GetAnswer(s)
        \/ IncLoad(s)
        \/ SaveOpen(s)
        \/ SaveDump(s)

SpecSessions == InitSessions /\ [][NextSessions]_vars

\* C15: the prompts answered for a user today, those counted in the file
\* when the sessions started included, never exceed DAILY_LIMIT.
C15_AtMostLimitAnswered ==
    sessions.on =>
        \A u \in Users : sessions.start[u] + sessions.answered[u] <= DAILY_LIMIT

\* No session is inside increment_usage.
NoIncrementRunning == \A s \in SessionIds : sessions.pc[s] \notin {"open", "dump"}

\* C16: when the increment_usage calls made so far have all completed, each
\* user's stored count for today is the count at the start plus the number
\* of that user's completed increments (so the counts sum to the initial sum
\* plus the number of increments).
C16_NoLostIncrement ==
    (sessions.on /\ NoIncrementRunning) =>
        \A u \in Users :
            StoredToday(usageFile, u) = sessions.start[u] + sessions.incremented[u]

(***************************************************************************)
(* app.py: the chat page's rerun loop (main) for one logged-in session     *)
(*                                                                         *)
(* chat.pc is where the session's script is: "idle" (the run has ended and *)
(* the page waits for a widget event), "rerun" (st.rerun() was called: a   *)
(* run without a widget value starts) and "thinking" (inside the blocking  *)
(* _try_send_prompt call).  Streamlit, the environment, starts a run for   *)
(* each widget event, and stops a run in progress at its next st call when *)
(* an event arrives (the stop is not an Exception, so `except Exception`   *)
(* does not see it).                                                       *)
(***************************************************************************)
\* Bound of the chat model: user messages in one session.
MaxTurns == 2

ChatUser == "alice"

WELCOME_MSG == "Welcome"
DAILY_LIMIT_MSG == "You've used your 10 prompts for today."

\* What the user may type, and the suggested prompt of the first button.
TypedPrompts == {"hello"}
SUGGESTED_PROMPTS == {"I feel stuck in my career"}

\* st.session_state.pending_prompt = None
NoPrompt == ""

Message(role, content) == [role |-> role, content |-> content]

\* _try_send_prompt(email, prompt): the response (or the error it raises),
\* the usage file and the get_rag cache it leaves.
_try_send_prompt(email, loadOk, invokeOk) ==
    LET usage == get_usage(email)
        a == get_answer(loadOk, invokeOk)
    IN  IF ~usage.can_send
        THEN [raised |-> FALSE, ok |-> FALSE, response |-> DAILY_LIMIT_MSG,
              passed |-> FALSE, file |-> usageFile, cache |-> web.cache]
        ELSE IF a.outcome = "raised"
        THEN [raised |-> TRUE, ok |-> FALSE, response |-> a.text,
              passed |-> TRUE, file |-> usageFile, cache |-> a.cache]
        ELSE [raised |-> FALSE, ok |-> TRUE, response |-> a.text,
              passed |-> TRUE, file |-> IncrementedFile(email), cache |-> a.cache]

\* try: ok, response = _try_send_prompt(...)  except Exception as e: ...
ResponseShown(r) == IF r.raised THEN Sorry(r.response) ELSE r.response

InitChat ==
    /\ usageFile \in {EmptyFile} \cup
          {[e \in {ChatUser} |-> [k \in {DateKey(1)} |-> n]] :
              n \in {DAILY_LIMIT - 1, DAILY_LIMIT}}
    /\ today = 1
    /\ sentToday = [u \in Users |-> 0]
    /\ startFresh = {}
    /\ calls = 0
    /\ index \in {NoIndex, <<[text |-> "intro", source |-> "page-1"]>>}
    /\ build = [called |-> FALSE]
    /\ web = [started |-> TRUE, cache |-> "unset", last |-> NoCall]
    /\ chat = [pc |-> "idle",
               messages |-> <<Message("assistant", WELCOME_MSG)>>,
               pending_prompt |-> NoPrompt,
               sent |-> 0, passed |-> 0, incremented |-> 0]
    /\ IdleLoader /\ IdleIds /\ IdleDiscovery /\ IdleWalks /\ IdleSessions

ChatFrame ==
    UNCHANGED <<today, sentToday, startFresh, calls, storeVars, loaderVars, idVars,
                discovery, walks, sessions>>

UserMessages == Cardinality({i \in DOMAIN chat.messages : chat.messages[i].role = "user"})

\* messages.append(user message); pending_prompt = prompt; st.rerun()
AcceptPrompt(c, prompt) ==
    [c EXCEPT !.messages = Append(@, Message("user", prompt)),
              !.pending_prompt = prompt,
              !.pc = "rerun"]

\* The user submits the chat input while the page is idle.
ChatInput(prompt) ==
    /\ chat.pc = "idle"
    /\ UserMessages < MaxTurns
    /\ chat' = AcceptPrompt(chat, prompt)
    /\ UNCHANGED <<usageFile, web>>
    /\ ChatFrame

\* The user clicks a suggested prompt while the page is idle; the button is
\* disabled when can_send is false.
SuggestedPrompt(prompt) ==
    /\ chat.pc = "idle"
    /\ UserMessages < MaxTurns
    /\ get_usage(ChatUser).can_send
    /\ chat' = AcceptPrompt(chat, prompt)
    /\ UNCHANGED <<usageFile, web>>
    /\ ChatFrame

\* A run without a widget value: with a pending prompt it clears
\* pending_prompt and enters the blocking call; without one it ends.
Rerun ==
    /\ chat.pc = "rerun"
    /\ chat' = IF chat.pending_prompt # NoPrompt
               THEN [chat EXCEPT !.pending_prompt = NoPrompt, !.pc = "thinking"]
               ELSE [chat EXCEPT !.pc = "idle"]
    /\ UNCHANGED <<usageFile, web>>
    /\ ChatFrame

\* The effects of the _try_send_prompt call on the file, the cache and the
\* counters of calls.
Sent(r) ==
    /\ usageFile' = r.file
    /\ web' = [web EXCEPT !.cache = r.cache]

Counted(c, r) ==
    [c EXCEPT !.sent = @ + 1,
              !.passed = @ + (IF r.passed THEN 1 ELSE 0),
              !.incremented = @ + (IF r.ok THEN 1 ELSE 0)]

\* The blocking call returns (or raises); the response is shown and
\* appended as the assistant's message; st.rerun().
Respond(loadOk, invokeOk) ==
    /\ chat.pc = "thinking"
    /\ LET r == _try_send_prompt(ChatUser, loadOk, invokeOk)
       IN  /\ Sent(r)
           /\ chat' = [Counted(chat, r) EXCEPT
                          !.messages = Append(@, Message("assistant", ResponseShown(r))),
                          !.pc = "rerun"]
    /\ ChatFrame

\* The user submits the chat input during the blocking call: the run is
\* stopped at placeholder.markdown(response), after _try_send_prompt has
\* returned, and the run for the new input starts.
InputWhileThinking(prompt, loadOk, invokeOk) ==
    /\ chat.pc = "thinking"
    /\ UserMessages < MaxTurns
    /\ LET r == _try_send_prompt(ChatUser, loadOk, invokeOk)
       IN  /\ Sent(r)
           /\ chat' = AcceptPrompt(Counted(chat, r), prompt)
    /\ ChatFrame

NextChat ==
    \/ \E prompt \in TypedPrompts : ChatInput(prompt)
    \/ \E prompt \in SUGGESTED_PROMPTS : SuggestedPrompt(prompt)
    \/ Rerun
    \/ \E loadOk, invokeOk \in BOOLEAN : Respond(loadOk, invokeOk)
    \/ \E prompt \in TypedPrompts, loadOk, invokeOk \in BOOLEAN :
          InputWhileThinking(prompt, loadOk, invokeOk)

\* A script that runs keeps running: the rerun starts, the call returns.
SpecChat ==
    /\ InitChat
    /\ [][NextChat]_vars
    /\ WF_vars(Rerun)
    /\ WF_vars(\E loadOk, invokeOk \in BOOLEAN : Respond(loadOk, invokeOk))

LastRole == chat.messages[Len(chat.messages)].role

\* After the welcome message, user and assistant messages alternate.
Alternating ==
    \A i \in DOMAIN chat.messages :
        chat.messages[i].role = (IF i % 2 = 1 THEN "assistant" ELSE "user")

\* C18: every user message is eventually followed by exactly one assistant
\* message; pending_prompt is cleared when the blocking call starts and no
\* prompt is sent twice; usage is incremented once for each prompt that
\* passed the quota check and never for a refused one.
C18_OneReplyPerPrompt ==
    /\ [](chat.pc # "off" => Alternating)
    /\ (chat.pc # "off" /\ LastRole = "user") ~> (LastRole = "assistant")
    /\ [](chat.pc = "thinking" => chat.pending_prompt = NoPrompt)
    /\ [](chat.pc # "off" => chat.sent <= UserMessages)
    /\ [](chat.pc # "off" => chat.incremented = chat.passed)
====
